---- MODULE Spec2Model ----
(***************************************************************************)
(* Model of the weekly task scheduler: the blocked mask, the feasible      *)
(* starts, the CP-SAT placement model and the extraction of the schedule   *)
(* (scheduler/optimizer.py), the entry point generate_schedule             *)
(* (scheduler/scheduler.py) and the two buttons of the dashboard that call *)
(* it (src/app.py); the slot grid, the regressors and the base utility of  *)
(* a slot (scheduler/prophet_model.py), the utility of a task in a slot    *)
(* (optimizer.task_slot_utility) and the demo scenario (main.py).          *)
(*                                                                         *)
(* Time is counted in minutes from week_start.  A task duration is kept in *)
(* half hours (the dashboard enters durations in steps of 0.5 h), so that  *)
(* dur_h * 60 is DurMinutes(t) = 30 * t.dur_h.                             *)
(***************************************************************************)
EXTENDS Integers, Sequences, FiniteSets, TLC

VARIABLES week_start, prefs, fixed_events, tasks, missed_intervals,
          start_from, slots, pc, outcome, schedule_df, now,
          future_reg, forecast

vars == <<week_start, prefs, fixed_events, tasks, missed_intervals,
          start_from, slots, pc, outcome, schedule_df, now,
          future_reg, forecast>>

(* ---- bounds of the model ---------------------------------------------- *)
Days == 1
HoursPerDay == 2
MaxTasks == 2
MaxMissed == 2
MaxFixedEvents == 1
ScenarioHoursPerDay == 6

(* ---- values ----------------------------------------------------------- *)
None == -1
MinutesPerHour == 60
MinutesPerDay == HoursPerDay * MinutesPerHour
WeekMinutes == Days * MinutesPerDay

\* week_start: whether the instant carries a timezone, and its day of the
\* week; with it the calendar it lies in: the days of the week window
\* (timedelta(days=days)) and the hours of a day
WeekStartOn(tz, wd, days, hours) ==
    [tzinfo |-> tz, weekday |-> wd, days |-> days, day_hours |-> hours]

WeekStart(tz, wd) == WeekStartOn(tz, wd, Days, HoursPerDay)

DayMinutes(ws) == ws.day_hours * MinutesPerHour

\* week_end = week_start + timedelta(days=days)
WeekEnd(ws) == ws.days * DayMinutes(ws)

UserPrefs(sm, wk, bm, mh) ==
    [slot_minutes |-> sm, weekend_ok |-> wk, buffer_minutes |-> bm,
     max_hours_per_day |-> mh]

FixedEvent(s, e) == [start |-> s, end |-> e]

Task(i, l, d, p, la) ==
    [id |-> i, label |-> l, dur_h |-> d, priority |-> p, latest |-> la]

DurMinutes(t) == t.dur_h * 30

Min(a, b) == IF a <= b THEN a ELSE b

Max(a, b) == IF a >= b THEN a ELSE b

(* ---- prophet_model.build_slots ---------------------------------------- *)
\* variant: date_range with inclusive="both", week_end is a slot as well
NumSlotsInclusiveBoth(ws, p) == (WeekEnd(ws) \div p.slot_minutes) + 1

\* date_range(week_start, week_end, freq, inclusive="left"): the instants
\* week_start + i * freq that lie before week_end
NumSlots(ws, p) == (WeekEnd(ws) + p.slot_minutes - 1) \div p.slot_minutes

Weekday(ws, ds) == (ws.weekday + (ds \div DayMinutes(ws))) % 7

\* a row of the slot table; date is ds.date(), the day of the week window
SlotRow(ws, ds) ==
    [ds |-> ds,
     date |-> ds \div DayMinutes(ws),
     hour |-> (ds % DayMinutes(ws)) \div MinutesPerHour,
     weekday |-> Weekday(ws, ds),
     is_weekend |-> IF Weekday(ws, ds) >= 5 THEN 1 ELSE 0]

build_slots(ws, p) ==
    [i \in 0 .. NumSlots(ws, p) - 1 |-> SlotRow(ws, i * p.slot_minutes)]

SlotDate(row) == row.date

(* ---- prophet_model: the regressors of a slot --------------------------- *)
\* a ratio of two minute counts is kept as numerator and denominator
Fraction(n, d) == [num |-> n, den |-> d]

window_min == 90
window_days == 3

\* defaults of UserPrefs: the preferred morning and the start of the evening
prefer_morning_start == 8
prefer_morning_end == 11
avoid_evenings_after == 20

\* overlap_min after the loop over the first n rows of fixed_df, for the
\* window from s to e
RECURSIVE OverlapMin(_, _, _, _)
OverlapMin(fixed, n, s, e) ==
    IF n = 0
    THEN 0
    ELSE IF fixed[n].end <= s \/ fixed[n].start >= e
    THEN OverlapMin(fixed, n - 1, s, e)
    ELSE OverlapMin(fixed, n - 1, s, e)
            + (Min(fixed[n].end, e) - Max(fixed[n].start, s))

\* the meeting density of the slot at t: overlap_min / (2 * window_min)
compute_meeting_density(t, fixed) ==
    IF fixed = <<>>
    THEN Fraction(0, 1)
    ELSE Fraction(OverlapMin(fixed, Len(fixed), t - window_min, t + window_min),
                  2 * window_min)

\* np.clip((window_days - days_left) / window_days, 0, 1) in minutes, where
\* days_left = (ddl - ds) / (minutes of a day)
DeadlineRamp(ws, ds, ddl) ==
    Max(0, Min(window_days * DayMinutes(ws),
               window_days * DayMinutes(ws) - (ddl - ds)))

\* deadline_pressure after the loop over the first n tasks
RECURSIVE PressureUpTo(_, _, _, _)
PressureUpTo(ws, ds, ts, n) ==
    IF n = 0
    THEN 0
    ELSE IF ts[n].latest = None
    THEN PressureUpTo(ws, ds, ts, n - 1)
    ELSE Max(PressureUpTo(ws, ds, ts, n - 1),
             DeadlineRamp(ws, ds, ts[n].latest))

add_deadline_pressure(ws, ds, ts) ==
    Fraction(PressureUpTo(ws, ds, ts, Len(ts)), window_days * DayMinutes(ws))

add_regressors(ws, sl, fixed, ts) ==
    [i \in DOMAIN sl |->
        [ds |-> sl[i].ds,
         prefer_morning |->
            IF sl[i].hour >= prefer_morning_start
                  /\ sl[i].hour <= prefer_morning_end THEN 1 ELSE 0,
         avoid_late |-> IF sl[i].hour >= avoid_evenings_after THEN 1 ELSE 0,
         is_weekend |-> IF sl[i].weekday >= 5 THEN 1 ELSE 0,
         meeting_density |-> compute_meeting_density(sl[i].ds, fixed),
         deadline_pressure |-> add_deadline_pressure(ws, sl[i].ds, ts)]]

(* ---- prophet_model: the base utility of a slot -------------------------- *)
\* utilities are counted in millionths: One is the utility 1.0
One == 1000000

\* forecast["yhat"].clip(0, 1)
ClipUnit(y) == Max(0, Min(One, y))

\* slots["utility_base"] = forecast["yhat"].clip(0, 1).values
WithUtilityBase(sl, yhat) ==
    [i \in DOMAIN sl |-> [utility_base |-> ClipUnit(yhat[i])] @@ sl[i]]

(* ---- optimizer.build_blocked_mask ------------------------------------- *)
InInterval(ds, s, e) == ds >= s /\ ds < e

\* variant: the first slot of a missed interval is left free
MissedBlocksAfterStart(ds, missed) ==
    \E k \in 1 .. Len(missed) : ds > missed[k][1] /\ ds < missed[k][2]

MissedBlocks(ds, missed) ==
    \E k \in 1 .. Len(missed) : InInterval(ds, missed[k][1], missed[k][2])

build_blocked_mask(sl, fixed, p, missed, sf) ==
    [i \in DOMAIN sl |->
        \/ (sf # None /\ sl[i].ds < sf)
        \/ \E k \in 1 .. Len(fixed) :
              InInterval(sl[i].ds, fixed[k].start, fixed[k].end)
        \/ (~p.weekend_ok /\ sl[i].is_weekend = 1)
        \/ MissedBlocks(sl[i].ds, missed)]

(* ---- optimizer.feasible_starts ---------------------------------------- *)
DurSlots(t, p) == DurMinutes(t) \div p.slot_minutes

AnyBlocked(blocked, i, dur) == \E k \in i .. i + dur - 1 : blocked[k]

\* variant: the deadline is compared with the start of the last slot
EndTimeLastSlotStart(sl, i, dur, p) == sl[i + dur - 1].ds

\* end_time of the run that starts at slot i: its last slot plus a slot
EndTime(sl, i, dur, p) == sl[i + dur - 1].ds + p.slot_minutes

PastDeadline(end_time, latest) == end_time > latest

\* the starts tried by the loop: range(len(slots) - dur_slots + 1)
StartRange(sl, dur) == 0 .. (Cardinality(DOMAIN sl) - dur)

\* slots.loc[i + dur_slots - 1] is evaluated for an unblocked start of a task
\* with a deadline; it raises KeyError when that label is not in the index
FeasibleStartsRaises(t, sl, blocked, p) ==
    /\ t.latest # None
    /\ \E i \in StartRange(sl, DurSlots(t, p)) :
          /\ ~AnyBlocked(blocked, i, DurSlots(t, p))
          /\ (i + DurSlots(t, p) - 1) \notin DOMAIN sl

feasible_starts(t, sl, blocked, p) ==
    {i \in StartRange(sl, DurSlots(t, p)) :
        /\ ~AnyBlocked(blocked, i, DurSlots(t, p))
        /\ (t.latest # None /\ (i + DurSlots(t, p) - 1) \in DOMAIN sl)
              => ~PastDeadline(EndTime(sl, i, DurSlots(t, p), p), t.latest)}

(* ---- optimizer.task_slot_utility ---------------------------------------- *)
\* the labels whose lower case holds "deep work", and those that hold "gym"
DeepWorkLabels == {"Deep Work: Project", "Deep work at the gym"}
GymLabels == {"Gym", "Deep work at the gym"}

\* u *= 0.85, 1.3 or 0.8, the factor written in hundredths
Times(u, hundredths) == (u * hundredths) \div 100

\* u after the two adjustments, before it is clipped
AdjustedUtility(task_row, slot_row) ==
    LET deep == IF task_row.label \in DeepWorkLabels
                      /\ ~(8 <= slot_row.hour /\ slot_row.hour <= 17)
                THEN Times(slot_row.utility_base, 85)
                ELSE slot_row.utility_base
    IN  IF task_row.label \in GymLabels
        THEN IF 6 <= slot_row.hour /\ slot_row.hour <= 9
             THEN Times(deep, 130)
             ELSE Times(deep, 80)
        ELSE deep

\* variant: the adjusted utility is returned as it is
task_slot_utility_unclipped(task_row, slot_row) ==
    AdjustedUtility(task_row, slot_row)

\* return max(0.0, min(1.0, u))
task_slot_utility(task_row, slot_row) ==
    Max(0, Min(One, AdjustedUtility(task_row, slot_row)))

(* ---- optimizer.optimize_schedule: the placement model ------------------ *)
\* feasible_by_task and dur_slots_list, indexed by the position of the task
FeasibleByTask(ts, sl, blocked, p) ==
    [t \in 1 .. Len(ts) |-> feasible_starts(ts[t], sl, blocked, p)]

DurSlotsList(ts, p) == [t \in 1 .. Len(ts) |-> DurSlots(ts[t], p)]

\* A valuation of the booleans x[(t, i)] is written as the start sel[t] whose
\* variable is 1, or None when no variable of task t is 1.  A task without
\* feasible start has no variable at all.
RECURSIVE ValuationsUpTo(_, _)
ValuationsUpTo(cand, n) ==
    IF n = 0
    THEN {<<>>}
    ELSE {Append(sel, i) :
            sel \in ValuationsUpTo(cand, n - 1), i \in cand[n] \cup {None}}

Valuations(cand) == ValuationsUpTo(cand, Len(cand))

\* variant: a task may stay without start
StartsAtMostOnce(cand, sel) ==
    \A t \in DOMAIN sel : sel[t] \in cand[t] \cup {None}

\* variant: the constraint is also added for a task without feasible start
StartsExactlyOnceAlways(cand, sel) ==
    \A t \in DOMAIN sel : sel[t] # None

\* "Each task starts exactly once (if feasible)"
StartsExactlyOnce(cand, sel) ==
    \A t \in DOMAIN sel : cand[t] # {} => sel[t] # None

\* "No overlaps": at most one chosen run covers a slot
Covers(i, dur, s) == i <= s /\ s < i + dur

NoOverlaps(sl, durs, sel) ==
    \A s \in DOMAIN sl :
        Cardinality({t \in DOMAIN sel :
                        sel[t] # None /\ Covers(sel[t], durs[t], s)}) <= 1

\* "Buffer between tasks"
BufferSlots(p) == p.buffer_minutes \div p.slot_minutes

\* variant: the length of the second run is left out
too_close_without_dur2(i, dur1, j, dur2, buffer_slots) ==
    ~(j >= i + dur1 + buffer_slots \/ i >= j + buffer_slots)

too_close(i, dur1, j, dur2, buffer_slots) ==
    ~(j >= i + dur1 + buffer_slots \/ i >= j + dur2 + buffer_slots)

BufferBetweenTasks(durs, p, sel) ==
    \A t1, t2 \in DOMAIN sel :
        (t1 < t2 /\ sel[t1] # None /\ sel[t2] # None)
            => ~too_close(sel[t1], durs[t1], sel[t2], durs[t2], BufferSlots(p))

\* "Daily cap (approx)": number of chosen runs that touch a day
MaxSlotsPerDay(p) == p.max_hours_per_day * (MinutesPerHour \div p.slot_minutes)

TouchesDay(sl, i, dur, d) == \E k \in 0 .. dur - 1 : SlotDate(sl[i + k]) = d

StartsTouchingDay(sl, durs, sel, d) ==
    {t \in DOMAIN sel : sel[t] # None /\ TouchesDay(sl, sel[t], durs[t], d)}

DailyCap(sl, durs, p, sel) ==
    p.max_hours_per_day > 0 =>
        \A d \in {SlotDate(sl[s]) : s \in DOMAIN sl} :
            Cardinality(StartsTouchingDay(sl, durs, sel, d)) <= MaxSlotsPerDay(p)

\* the valuations CP-SAT may return: every one that meets the constraints is
\* the optimum for some slot utilities in [0,1] (utility 1 on its own runs)
Solutions(ts, sl, blocked, p) ==
    LET cand == FeasibleByTask(ts, sl, blocked, p)
        durs == DurSlotsList(ts, p)
    IN  {sel \in Valuations(cand) :
            /\ StartsExactlyOnce(cand, sel)
            /\ NoOverlaps(sl, durs, sel)
            /\ BufferBetweenTasks(durs, p, sel)
            /\ DailyCap(sl, durs, p, sel)}

(* ---- optimizer.optimize_schedule: extraction --------------------------- *)
Outcome(kind, df) == [kind |-> kind, df |-> df]

\* slots.loc[i] and slots.loc[i + dur - 1] raise KeyError outside the index
ExtractRaises(ts, sl, durs, sel) ==
    \E t \in DOMAIN sel :
        /\ sel[t] # None
        /\ (sel[t] \notin DOMAIN sl \/ (sel[t] + durs[t] - 1) \notin DOMAIN sl)

\* end = slots.loc[i + dur - 1, "ds"] + Timedelta(minutes=slot_minutes)
RunEnd(sl, i, dur, p) == sl[i + dur - 1].ds + p.slot_minutes

ScheduledRow(t, sl, i, dur, p) ==
    [id |-> t.id, label |-> t.label, start |-> sl[i].ds,
     end |-> RunEnd(sl, i, dur, p), priority |-> t.priority]

Scheduled(ts, sl, durs, p, sel) ==
    {ScheduledRow(ts[t], sl, sel[t], durs[t], p) :
        t \in {u \in DOMAIN sel : sel[u] # None}}

\* DataFrame(scheduled).sort_values("start"): the default sort is not stable,
\* rows of equal start come in either order
SortValuesStart(rows) ==
    {df \in [1 .. Cardinality(rows) -> rows] :
        /\ \A a, b \in DOMAIN df : a # b => df[a] # df[b]
        /\ \A a, b \in DOMAIN df : a < b => df[a].start <= df[b].start}

\* solver.Value(x) after a Solve that found no solution: the wrapper raises,
\* or reads values that are not 1 and the schedule comes out empty
NoSolutionOutcomes == {Outcome("SolverError", <<>>), Outcome("ok", <<>>)}

ExtractOutcomes(ts, sl, p, sel) ==
    IF ExtractRaises(ts, sl, DurSlotsList(ts, p), sel)
    THEN {Outcome("KeyError", <<>>)}
    ELSE {Outcome("ok", df) :
            df \in SortValuesStart(Scheduled(ts, sl, DurSlotsList(ts, p), p, sel))}

optimize_schedule(sl, ts, p, fixed, missed, sf) ==
    LET blocked == build_blocked_mask(sl, fixed, p, missed, sf)
        sols == Solutions(ts, sl, blocked, p)
    IN  IF \E t \in 1 .. Len(ts) : FeasibleStartsRaises(ts[t], sl, blocked, p)
        THEN {Outcome("KeyError", <<>>)}
        ELSE IF sols = {}
        THEN NoSolutionOutcomes
        ELSE UNION {ExtractOutcomes(ts, sl, p, sel) : sel \in sols}

(* ---- scheduler.generate_schedule --------------------------------------- *)
\* variant: the week start is taken as timezone-aware without a look
TzAwareAssumed(ws) == TRUE

TzAware(ws) == ws.tzinfo

generate_schedule(ws, p, fixed, ts, missed, sf) ==
    IF ~TzAware(ws)
    THEN {Outcome("ValueError", <<>>)}
    ELSE optimize_schedule(build_slots(ws, p), ts, p, fixed, missed, sf)

(* ---- inputs of a call of generate_schedule ----------------------------- *)
\* the week starts on a Friday: a second day of the week is a Saturday
WeekStartChoices == {WeekStart(tz, 4) : tz \in BOOLEAN}
SlotMinutesChoices == {30, 60}
BufferChoices == {30, 90}
MaxHoursChoices == {0, 1}
\* what takes slots away: fixed_events, missed_intervals and start_from
Blockers(fixed, missed, sf) ==
    [fixed_events |-> fixed, missed_intervals |-> missed, start_from |-> sf]

BlockerChoices ==
    {Blockers(<<>>, <<>>, None),
     Blockers(<<FixedEvent(50, 105)>>, <<>>, None),
     Blockers(<<>>, <<<<60, 120>>>>, None),
     Blockers(<<>>, <<>>, 30),
     Blockers(<<FixedEvent(50, 105)>>, <<<<60, 120>>>>, 30)}
DurChoices == {1, 2, 4}
LatestChoices == {None, 60}

PrefsChoices ==
    {UserPrefs(sm, wk, bm, mh) :
        sm \in SlotMinutesChoices, wk \in BOOLEAN,
        bm \in BufferChoices, mh \in MaxHoursChoices}

TaskLists ==
    UNION {[1 .. n -> DurChoices \X LatestChoices] :
            n \in 0 .. MaxTasks}

MakeTasks(shape) ==
    [t \in 1 .. Len(shape) |->
        Task(t - 1, "Study", shape[t][1], 1, shape[t][2])]

EmptyFrame == <<>>

Init ==
    /\ week_start \in WeekStartChoices
    /\ prefs \in PrefsChoices
    /\ \E b \in BlockerChoices :
          /\ fixed_events = b.fixed_events
          /\ missed_intervals = b.missed_intervals
          /\ start_from = b.start_from
    /\ tasks \in {MakeTasks(shape) : shape \in TaskLists}
    /\ slots = <<>>
    /\ pc = "start"
    /\ outcome = Outcome("none", <<>>)
    /\ schedule_df = EmptyFrame
    /\ future_reg = <<>>
    /\ forecast = <<>>
    /\ now = 0

\* the arguments of the call, and the session that is not part of it
inputs == <<week_start, prefs, fixed_events, tasks, missed_intervals,
            start_from>>

session == <<schedule_df, now>>

\* the locals of score_slots_with_prophet: regressor table and prediction
scoring == <<future_reg, forecast>>

\* "Sanity: ensure week_start is tz-aware"
Validate ==
    /\ pc = "start"
    /\ IF TzAware(week_start)
       THEN pc' = "scoring" /\ outcome' = outcome
       ELSE pc' = "done" /\ outcome' = Outcome("ValueError", <<>>)
    /\ UNCHANGED <<inputs, session, slots, scoring>>

\* 1) score_slots_with_prophet builds the slot table of the week; its
\* utilities are followed in SpecScoring, the placement below is taken for
\* all utilities at once
ScoreSlots ==
    /\ pc = "scoring"
    /\ slots' = build_slots(week_start, prefs)
    /\ pc' = "optimizing"
    /\ UNCHANGED <<inputs, session, outcome, scoring>>

\* 2) optimize_schedule
Optimize ==
    /\ pc = "optimizing"
    /\ outcome' \in optimize_schedule(slots, tasks, prefs, fixed_events,
                                      missed_intervals, start_from)
    /\ pc' = "done"
    /\ UNCHANGED <<inputs, session, slots, scoring>>

Next == Validate \/ ScoreSlots \/ Optimize

Spec == Init /\ [][Next]_vars

(* ---- a call whose intervals are malformed (end <= start) --------------- *)
\* a fixed event that ends before it starts, a missed interval of length 0
\* (the block of a task shorter than a slot) and one that runs backwards
MalformedChoices ==
    {Blockers(<<FixedEvent(105, 50)>>, <<>>, None),
     Blockers(<<>>, <<<<60, 60>>>>, None),
     Blockers(<<FixedEvent(50, 105)>>, <<<<120, 60>>>>, 30)}

InitMalformed ==
    /\ week_start \in WeekStartChoices
    /\ prefs \in PrefsChoices
    /\ \E b \in MalformedChoices :
          /\ fixed_events = b.fixed_events
          /\ missed_intervals = b.missed_intervals
          /\ start_from = b.start_from
    /\ tasks \in {MakeTasks(shape) : shape \in TaskLists}
    /\ slots = <<>>
    /\ pc = "start"
    /\ outcome = Outcome("none", <<>>)
    /\ schedule_df = EmptyFrame
    /\ future_reg = <<>>
    /\ forecast = <<>>
    /\ now = 0

SpecMalformed == InitMalformed /\ [][Next]_vars

(* ---- main.py: the demo scenario ----------------------------------------- *)
\* The scenario is laid on a week of seven days that are cut to
\* ScenarioHoursPerDay hours; hours are counted in that day.
\* the instant of the week at the given day, hour and minute
At(ws, day, hh, mm) == day * DayMinutes(ws) + hh * MinutesPerHour + mm

\* week_start = Timestamp("2025-11-03 00:00").tz_localize(TZ), a Monday
ScenarioWeekStart == WeekStartOn(TRUE, 0, 7, ScenarioHoursPerDay)

\* slot_minutes=60, weekend_ok=False, buffer_minutes=60, max_hours_per_day=4
ScenarioPrefs == UserPrefs(60, FALSE, 60, 4)

\* the fixed event 12:50-14:45 of a weekday, here Tuesday: it starts 50
\* minutes into an hour and ends 45 minutes into the next but one
ScenarioFixedEvents ==
    <<FixedEvent(At(ScenarioWeekStart, 1, 1, 50),
                 At(ScenarioWeekStart, 1, 3, 45))>>

\* 3 h priority 3 until Friday 17:00 (an hour of the Friday afternoon),
\* 2 h priority 2 until Saturday 23:59 (the last minute of Saturday),
\* 1 h priority 1 without deadline
ScenarioTasks ==
    <<Task(0, "Deep Work: Project", 6, 3,
           At(ScenarioWeekStart, 4, ScenarioHoursPerDay - 1, 0)),
      Task(1, "Study: OS", 4, 2,
           At(ScenarioWeekStart, 5, ScenarioHoursPerDay - 1, 59)),
      Task(2, "Gym", 2, 1, None)>>

InitScenario ==
    /\ week_start = ScenarioWeekStart
    /\ prefs = ScenarioPrefs
    /\ fixed_events = ScenarioFixedEvents
    /\ tasks = ScenarioTasks
    /\ missed_intervals = <<>>
    /\ start_from = None
    /\ slots = <<>>
    /\ pc = "start"
    /\ outcome = Outcome("none", <<>>)
    /\ schedule_df = EmptyFrame
    /\ future_reg = <<>>
    /\ forecast = <<>>
    /\ now = 0

SpecScenario == InitScenario /\ [][Next]_vars

(* ---- prophet_model.build_slots on the calendar week -------------------- *)
\* weeks of 7 days of 24 hours that start on any day of the week
CalendarWeekStarts ==
    {WeekStartOn(tz, wd, 7, 24) : tz \in BOOLEAN, wd \in 0 .. 6}

\* slot granularities: divisors of the week's 10080 minutes, and others
GranularityChoices == {15, 20, 30, 45, 60, 90, 25, 50, 100}

InitGrid ==
    /\ week_start \in CalendarWeekStarts
    /\ prefs \in {UserPrefs(g, FALSE, 60, 4) : g \in GranularityChoices}
    /\ fixed_events = <<>>
    /\ tasks = <<>>
    /\ missed_intervals = <<>>
    /\ start_from = None
    /\ slots = <<>>
    /\ pc = "grid"
    /\ outcome = Outcome("none", <<>>)
    /\ schedule_df = EmptyFrame
    /\ future_reg = <<>>
    /\ forecast = <<>>
    /\ now = 0

BuildSlots ==
    /\ pc = "grid"
    /\ slots' = build_slots(week_start, prefs)
    /\ pc' = "built"
    /\ UNCHANGED <<inputs, session, outcome, scoring>>

NextGrid == BuildSlots

SpecGrid == InitGrid /\ [][NextGrid]_vars

(* ---- prophet_model.score_slots_with_prophet, step by step --------------- *)
\* timezone-aware calendar weeks
ScoringWeekStarts == {ws \in CalendarWeekStarts : ws.tzinfo}

\* no fixed event, one, two that follow each other, two that overlap
ScoringFixedChoices(ws) ==
    {<<>>,
     <<FixedEvent(At(ws, 0, 12, 50), At(ws, 0, 14, 45))>>,
     <<FixedEvent(At(ws, 0, 12, 50), At(ws, 0, 14, 45)),
       FixedEvent(At(ws, 0, 15, 0), At(ws, 0, 16, 0))>>,
     <<FixedEvent(At(ws, 0, 12, 0), At(ws, 0, 15, 0)),
       FixedEvent(At(ws, 0, 13, 0), At(ws, 0, 14, 0))>>}

ScoringTasks(ws) ==
    <<Task(0, "Study", 4, 2, At(ws, 4, 17, 0)),
      Task(1, "Deep Work: Project", 6, 3, None),
      Task(2, "Gym", 2, 1, None),
      Task(3, "Deep work at the gym", 2, 1, At(ws, 2, 9, 0))>>

\* values of yhat: below 0, inside [0,1] and above 1
YhatChoices == <<-500000, 0, 400000, 800000, 1000000, 1300000>>

\* predictions that give every slot each of the values in turn
Forecasts(dom) ==
    {[i \in dom |-> YhatChoices[((i + k) % Len(YhatChoices)) + 1]] :
        k \in 0 .. Len(YhatChoices) - 1}

InitScoring ==
    /\ week_start \in ScoringWeekStarts
    /\ prefs \in {UserPrefs(sm, FALSE, 60, 4) : sm \in SlotMinutesChoices}
    /\ fixed_events \in ScoringFixedChoices(week_start)
    /\ tasks = ScoringTasks(week_start)
    /\ missed_intervals = <<>>
    /\ start_from = None
    /\ slots = <<>>
    /\ pc = "regressors"
    /\ outcome = Outcome("none", <<>>)
    /\ schedule_df = EmptyFrame
    /\ future_reg = <<>>
    /\ forecast = <<>>
    /\ now = 0

\* "Build grids", "Add regressors"
AddRegressors ==
    /\ pc = "regressors"
    /\ slots' = build_slots(week_start, prefs)
    /\ future_reg' = add_regressors(week_start, slots', fixed_events, tasks)
    /\ pc' = "predict"
    /\ UNCHANGED <<inputs, session, outcome, forecast>>

\* "Fit & predict": the model may predict any value for a slot
Predict ==
    /\ pc = "predict"
    /\ forecast' \in Forecasts(DOMAIN future_reg)
    /\ pc' = "clip"
    /\ UNCHANGED <<inputs, session, outcome, slots, future_reg>>

ClipUtility ==
    /\ pc = "clip"
    /\ slots' = WithUtilityBase(slots, forecast)
    /\ pc' = "scored"
    /\ UNCHANGED <<inputs, session, outcome, scoring>>

NextScoring == AddRegressors \/ Predict \/ ClipUtility

SpecScoring == InitScoring /\ [][NextScoring]_vars

(* ---- app.py: the dashboard session ------------------------------------- *)
AppDurChoices == {2}
AppLatestChoices == {None}
AppWeekendChoices == {FALSE}
AppFixedChoices == {FixedEvent(50, 105)}
NowChoices == {-30, 75, WeekMinutes + 30}

\* UserPrefs(): slot_minutes 60, weekend_ok False, buffer_minutes 60,
\* max_hours_per_day 4
DefaultPrefs == UserPrefs(60, FALSE, 60, 4)

InitApp ==
    /\ week_start = WeekStart(TRUE, 4)
    /\ prefs = DefaultPrefs
    /\ fixed_events = <<>>
    /\ tasks = <<>>
    /\ missed_intervals = <<>>
    /\ start_from = None
    /\ slots = <<>>
    /\ pc = "session"
    /\ outcome = Outcome("none", <<>>)
    /\ schedule_df = EmptyFrame
    /\ future_reg = <<>>
    /\ forecast = <<>>
    /\ now = -30

\* "Earliest allowed scheduling time": inside the week the current time
\* rounded down to a slot boundary of its hour, else week_start
EarliestAllowed(t, p) ==
    IF 0 <= t /\ t <= WeekMinutes
    THEN (t - (t % MinutesPerHour))
            + (((t % MinutesPerHour) \div p.slot_minutes) * p.slot_minutes)
    ELSE 0

\* the wall clock moves on between two runs of the script
Tick ==
    /\ pc = "session"
    /\ now' \in {t \in NowChoices : t > now}
    /\ UNCHANGED <<week_start, prefs, fixed_events, tasks, missed_intervals,
                   start_from, slots, pc, outcome, schedule_df,
                   scoring>>

\* sidebar: "Allow weekends?" and "Slot size (minutes)"
SetPreferences ==
    /\ pc = "session"
    /\ \E wk \in AppWeekendChoices, sm \in SlotMinutesChoices :
          /\ prefs' = [prefs EXCEPT !.weekend_ok = wk, !.slot_minutes = sm]
          /\ prefs' # prefs
    /\ UNCHANGED <<week_start, fixed_events, tasks, missed_intervals,
                   start_from, slots, pc, outcome, schedule_df, now,
                   scoring>>

\* sidebar form "Add Fixed Event"
AddFixedEvent ==
    /\ pc = "session"
    /\ Len(fixed_events) < MaxFixedEvents
    /\ \E fe \in AppFixedChoices :
          /\ fe.end > fe.start
          /\ fixed_events' = Append(fixed_events, fe)
    /\ UNCHANGED <<week_start, prefs, tasks, missed_intervals,
                   start_from, slots, pc, outcome, schedule_df, now,
                   scoring>>

\* sidebar form "Add Dynamic Task"
AddTask ==
    /\ pc = "session"
    /\ Len(tasks) < MaxTasks
    /\ \E d \in AppDurChoices, la \in AppLatestChoices :
          tasks' = Append(tasks, Task(Len(tasks), "Study", d, 2, la))
    /\ UNCHANGED <<week_start, prefs, fixed_events, missed_intervals,
                   start_from, slots, pc, outcome, schedule_df, now,
                   scoring>>

\* the call of generate_schedule of both buttons: the session keeps the new
\* schedule and slot table only when the call returns
RunSchedule(missed) ==
    /\ start_from' = EarliestAllowed(now, prefs)
    /\ outcome' \in generate_schedule(week_start, prefs, fixed_events,
                                      tasks, missed, start_from')
    /\ IF outcome'.kind = "ok"
       THEN schedule_df' = outcome'.df /\ slots' = build_slots(week_start, prefs)
       ELSE UNCHANGED <<schedule_df, slots>>

\* button "Generate Schedule"
GenerateButton ==
    /\ pc = "session"
    /\ missed_intervals' = <<>>
    /\ RunSchedule(missed_intervals')
    /\ UNCHANGED <<week_start, prefs, fixed_events, tasks, pc, now,
                   scoring>>

\* button "Mark as missed and reschedule" on the selected row
MarkMissedButton ==
    /\ pc = "session"
    /\ Len(missed_intervals) < MaxMissed
    /\ \E sel \in DOMAIN schedule_df :
          /\ schedule_df[sel].id \in {tasks[t].id : t \in DOMAIN tasks}
          /\ missed_intervals' =
                Append(missed_intervals,
                       <<schedule_df[sel].start, schedule_df[sel].end>>)
          /\ RunSchedule(missed_intervals')
    /\ UNCHANGED <<week_start, prefs, fixed_events, tasks, pc, now,
                   scoring>>

NextApp ==
    \/ Tick
    \/ SetPreferences
    \/ AddFixedEvent
    \/ AddTask
    \/ GenerateButton
    \/ MarkMissedButton

SpecApp == InitApp /\ [][NextApp]_vars

(* ======================================================================= *)
(* Properties of the result of a run                                        *)
(* ======================================================================= *)
Returned == pc = "done" /\ outcome.kind = "ok"

Rows == {outcome.df[k] : k \in DOMAIN outcome.df}

\* two half-open intervals have an instant in common
Intersects(s1, e1, s2, e2) == Max(s1, s2) < Min(e1, e2)

BlockedNow ==
    build_blocked_mask(slots, fixed_events, prefs, missed_intervals, start_from)

\* C1: no two assignments of a returned result overlap in time: for any two
\* distinct assignments A and B, A.end <= B.start or B.end <= A.start.
C1_NoTwoAssignmentsOverlap ==
    \A a, b \in DOMAIN outcome.df :
        a # b => \/ outcome.df[a].end <= outcome.df[b].start
                 \/ outcome.df[b].end <= outcome.df[a].start

\* two assignments are returned and the second starts where the first ends
C1_Witness ==
    /\ Returned
    /\ Len(outcome.df) >= 2
    /\ outcome.df[1].end = outcome.df[2].start
    /\ outcome.df[1].start < outcome.df[1].end
    /\ outcome.df[2].start < outcome.df[2].end

\* C2: no assignment of a returned result intersects a blocked interval: a
\* fixed event's [start, end), a missed interval, a weekend day when weekends
\* are disallowed, or the time before the earliest-allowed instant.
C2_NoAssignmentInBlockedInterval ==
    Returned =>
        \A r \in Rows :
            /\ \A k \in DOMAIN fixed_events :
                  ~Intersects(r.start, r.end,
                              fixed_events[k].start, fixed_events[k].end)
            /\ \A k \in DOMAIN missed_intervals :
                  ~Intersects(r.start, r.end,
                              missed_intervals[k][1], missed_intervals[k][2])
            /\ ~prefs.weekend_ok =>
                  \A d \in 0 .. Days - 1 :
                      Weekday(week_start, d * MinutesPerDay) >= 5 =>
                          ~Intersects(r.start, r.end, d * MinutesPerDay,
                                      (d + 1) * MinutesPerDay)
            /\ start_from # None => ~Intersects(r.start, r.end, 0, start_from)

\* C3: any two distinct assignments of a returned result are separated by at
\* least prefs.buffer_minutes, from the end of the earlier one to the start
\* of the later one.
C3_BufferBetweenAssignments ==
    Returned =>
        \A a, b \in DOMAIN outcome.df :
            (a # b /\ outcome.df[a].start <= outcome.df[b].start) =>
                outcome.df[b].start - outcome.df[a].end >= prefs.buffer_minutes

\* C4: the assignment of a task that has a deadline ends at or before it.
C4_DeadlineRespected ==
    \A r \in Rows :
        \A t \in DOMAIN tasks :
            (tasks[t].id = r.id /\ tasks[t].latest # None) =>
                r.end <= tasks[t].latest

\* a task with a deadline is placed so that it ends exactly at the deadline
C4_Witness ==
    /\ Returned
    /\ \E r \in Rows : \E t \in DOMAIN tasks :
          /\ tasks[t].id = r.id
          /\ r.end = tasks[t].latest
          /\ r.start < r.end

\* the slots of the week's grid that lie on day d and inside an assignment
OccupiedSlotsOfDay(d) ==
    {s \in DOMAIN slots :
        /\ SlotDate(slots[s]) = d
        /\ \E r \in Rows : r.start <= slots[s].ds /\ slots[s].ds < r.end}

\* C5: on every calendar day the number of slots occupied by assignments is
\* at most max_hours_per_day x (slots per hour); stated for a cap that is
\* switched on (max_hours_per_day > 0).
C5_DailyCapInSlots ==
    (Returned /\ prefs.max_hours_per_day > 0) =>
        \A d \in 0 .. Days - 1 :
            Cardinality(OccupiedSlotsOfDay(d))
                <= prefs.max_hours_per_day
                       * (MinutesPerHour \div prefs.slot_minutes)

RowsOf(t) == {k \in DOMAIN outcome.df : outcome.df[k].id = tasks[t].id}

HasFeasibleStart(t) ==
    feasible_starts(tasks[t], slots, BlockedNow, prefs) # {}

WithoutTask(ts, k) ==
    [i \in 1 .. Len(ts) - 1 |-> IF i < k THEN ts[i] ELSE ts[i + 1]]

\* C7: a task without feasible start is left out of the result, and the run
\* has the same possible outcomes as the run without that task.
C7_InfeasibleTaskDropped ==
    \A k \in DOMAIN tasks :
        /\ (Returned /\ RowsOf(k) # {}) => HasFeasibleStart(k)
        /\ (pc = "optimizing" /\ ~HasFeasibleStart(k)) =>
              optimize_schedule(slots, tasks, prefs, fixed_events,
                                missed_intervals, start_from)
                = optimize_schedule(slots, WithoutTask(tasks, k), prefs,
                                    fixed_events, missed_intervals, start_from)

\* a task without feasible start is left out while another task is placed
C7_Witness ==
    /\ Returned
    /\ Len(outcome.df) >= 1
    /\ \E k \in DOMAIN tasks : ~HasFeasibleStart(k) /\ RowsOf(k) = {}

\* C8: with a timezone-aware week start and tasks of duration > 0 the run
\* returns an assignment list and never raises.
C8_NeverRaises ==
    (pc = "done" /\ TzAware(week_start)) => outcome.kind = "ok"

\* C10: with a week start that has no timezone the run fails with ValueError
\* before any slot is scored or any task placed, and returns nothing.
C10_NaiveWeekStartRejected ==
    ~week_start.tzinfo =>
        /\ pc \in {"start", "done"}
        /\ slots = <<>>
        /\ pc = "done" => outcome = Outcome("ValueError", <<>>)

\* the run on a naive week start with tasks to place has ended
C10_Witness ==
    /\ ~week_start.tzinfo
    /\ pc = "done"
    /\ outcome.kind = "ValueError"
    /\ Len(tasks) >= 1

\* C13: every assignment starts on a slot boundary of the week, its length
\* is exactly floor(duration_hours x 60 / slot_minutes) slots, which never
\* exceeds the nominal duration of the task, start < end, and the whole
\* interval lies inside the week window.
C13_AssignmentIsRunOfSlots ==
    Returned =>
        \A r \in Rows : \A t \in DOMAIN tasks :
            tasks[t].id = r.id =>
                /\ \E i \in DOMAIN slots : slots[i].ds = r.start
                /\ r.end - r.start
                      = (DurMinutes(tasks[t]) \div prefs.slot_minutes)
                            * prefs.slot_minutes
                /\ r.end - r.start <= DurMinutes(tasks[t])
                /\ r.start < r.end
                /\ 0 <= r.start /\ r.end <= WeekEnd(week_start)

\* the slots of day d that lie inside an assignment of the result
ScenarioOccupied(d) ==
    {s \in DOMAIN slots :
        /\ slots[s].date = d
        /\ \E r \in Rows : r.start <= slots[s].ds /\ slots[s].ds < r.end}

\* C14: in the scenario (60-minute slots, no weekends, buffer 60 minutes,
\* daily cap 4 hours, one fixed event 12:50-14:45 on a weekday, tasks of
\* 3 h until Friday 17:00, 2 h until Saturday and 1 h without deadline) every
\* result the optimizer may return has exactly three assignments, one per
\* task, none overlapping the fixed event, mutually non-overlapping, pairwise
\* at least the buffer apart, each within its deadline, and at most 4 hours
\* of them on a day.
C14_ScenarioResult ==
    Returned =>
        /\ Len(outcome.df) = 3
        /\ \A t \in DOMAIN tasks : Cardinality(RowsOf(t)) = 1
        /\ \A r \in Rows : \A k \in DOMAIN fixed_events :
              ~Intersects(r.start, r.end,
                          fixed_events[k].start, fixed_events[k].end)
        /\ \A a, b \in DOMAIN outcome.df :
              (a # b /\ outcome.df[a].start <= outcome.df[b].start) =>
                  outcome.df[b].start - outcome.df[a].end
                      >= prefs.buffer_minutes
        /\ \A r \in Rows : \A t \in DOMAIN tasks :
              (tasks[t].id = r.id /\ tasks[t].latest # None) =>
                  r.end <= tasks[t].latest
        /\ \A d \in 0 .. week_start.days - 1 :
              Cardinality(ScenarioOccupied(d)) * prefs.slot_minutes
                  <= prefs.max_hours_per_day * MinutesPerHour

\* an interval of the call ends at or before its start
MalformedInterval ==
    \/ \E k \in DOMAIN fixed_events : fixed_events[k].end <= fixed_events[k].start
    \/ \E k \in DOMAIN missed_intervals :
          missed_intervals[k][2] <= missed_intervals[k][1]

\* C11: a call with a malformed interval (a fixed event or a missed interval
\* with end <= start) is rejected with a validation error before any
\* computation: no slot is scored, no task is placed, the run ends in
\* ValueError.
C11_MalformedIntervalRejected ==
    MalformedInterval =>
        /\ pc \in {"start", "done"}
        /\ slots = <<>>
        /\ pc = "done" => outcome = Outcome("ValueError", <<>>)

(* ======================================================================= *)
(* Properties of the slot grid                                              *)
(* ======================================================================= *)
\* the slots start at week_start, follow each other at slot_minutes and end
\* exactly at week_end: (week minutes) / slot_minutes slots that partition
\* the half-open week window
PartitionsWeek ==
    /\ Cardinality(DOMAIN slots) * prefs.slot_minutes = WeekEnd(week_start)
    /\ DOMAIN slots = 0 .. Cardinality(DOMAIN slots) - 1
    /\ slots[0].ds = 0
    /\ \A i \in DOMAIN slots :
          /\ (i + 1) \in DOMAIN slots =>
                slots[i + 1].ds = slots[i].ds + prefs.slot_minutes
          /\ slots[i].ds + prefs.slot_minutes <= WeekEnd(week_start)

\* C12 as stated: for every week start and every slot granularity G,
\* build_slots returns exactly (7 x 1440) / G slots that start at week
\* start, increase by exactly G minutes and partition the 7-day window, no
\* slot extending past its end.
C12_SlotsPartitionWeekForEveryG ==
    pc = "built" => PartitionsWeek

\* C12 amended: the same for every slot granularity G that divides the
\* 7 x 1440 minutes of the week.
C12_SlotsPartitionWeekWhenGDivides ==
    (pc = "built" /\ WeekEnd(week_start) % prefs.slot_minutes = 0)
        => PartitionsWeek

\* the grid of a week at 45-minute slots is built: 224 slots
C12_Witness ==
    /\ pc = "built"
    /\ prefs.slot_minutes = 45
    /\ Cardinality(DOMAIN slots) = 224
    /\ slots[223].ds + 45 = WeekEnd(week_start)

(* ======================================================================= *)
(* Properties of the scores                                                 *)
(* ======================================================================= *)
\* the minutes of the window around t that lie in the first n fixed events,
\* every event counted on its own
RECURSIVE SummedOverlap(_, _, _)
SummedOverlap(fixed, n, t) ==
    IF n = 0
    THEN 0
    ELSE SummedOverlap(fixed, n - 1, t)
            + Max(0, Min(fixed[n].end, t + 90) - Max(fixed[n].start, t - 90))

\* C15: for every timestamp and every list of fixed events, also of events
\* that overlap each other, meeting_density is a fraction in [0,1]: the
\* summed overlap of the +/-90-minute window with the fixed events divided
\* by the 180 minutes of the window, and 0 when there is no fixed event.
C15_MeetingDensityIsFraction ==
    \A i \in DOMAIN future_reg :
        /\ 0 <= future_reg[i].meeting_density.num
        /\ future_reg[i].meeting_density.num
              <= future_reg[i].meeting_density.den
        /\ future_reg[i].meeting_density.num * 180
              = SummedOverlap(fixed_events, Len(fixed_events),
                              future_reg[i].ds)
                  * future_reg[i].meeting_density.den
        /\ fixed_events = <<>> => future_reg[i].meeting_density.num = 0

InUnit(u) == 0 <= u /\ u <= One

\* C16: every slot of the returned slot table has a base utility in [0,1]
\* whatever the forecaster predicts, and the task-adjusted utility of the
\* objective (base utility times 0.85, 1.3 or 0.8) is again in [0,1] for
\* every task and slot.
C16_UtilitiesInUnitInterval ==
    pc = "scored" =>
        \A i \in DOMAIN slots :
            /\ InUnit(slots[i].utility_base)
            /\ \A t \in DOMAIN tasks :
                  InUnit(task_slot_utility(tasks[t], slots[i]))

\* predictions below 0 and above 1 were clipped, and a gym task in a morning
\* slot has its utility of more than 1 cut back to 1
C16_Witness ==
    /\ pc = "scored"
    /\ \E i \in DOMAIN slots : forecast[i] < 0 /\ slots[i].utility_base = 0
    /\ \E i \in DOMAIN slots : forecast[i] > One /\ slots[i].utility_base = One
    /\ \E i \in DOMAIN slots : \E t \in DOMAIN tasks :
          /\ slots[i].utility_base < One
          /\ AdjustedUtility(tasks[t], slots[i]) > One
          /\ task_slot_utility(tasks[t], slots[i]) = One

(* ======================================================================= *)
(* Properties of the dashboard session                                      *)
(* ======================================================================= *)
\* the slots of the session's grid covered by the rows of the last result
CoveredSlots ==
    {s \in DOMAIN slots :
        \E r \in Rows : r.start <= slots[s].ds /\ slots[s].ds < r.end}

IsPrefix(a, b) == Len(a) <= Len(b) /\ \A k \in DOMAIN a : a[k] = b[k]

C17_NoAssignmentStartsInThePast ==
    [][((GenerateButton \/ MarkMissedButton)
            /\ 0 <= now /\ now <= WeekEnd(week_start)
            /\ outcome'.kind = "ok")
          => \A k \in DOMAIN outcome'.df : outcome'.df[k].start >= now]_vars

====
